---- MODULE Spec2Model ----
(***************************************************************************)
(* Model of src/app.py: a Streamlit dashboard script.  Streamlit executes  *)
(* the whole script top to bottom once when the session starts and once    *)
(* more after every user interaction.  One run is modelled as the steps    *)
(* tab1 -> tab2 -> tab3 -> tab4 -> idle (pc); a user interaction happens   *)
(* while the script is idle and starts the next run.                       *)
(*                                                                         *)
(* Arithmetic: the script computes with IEEE doubles.  Every quantity of   *)
(* the risk formula is a multiple of 1/12000, so the model holds the exact *)
(* rational value as an integer count of 1/Unit.  Over the whole slider    *)
(* domain the double results differ from the exact ones by at most one     *)
(* ulp and take the same side of every comparison the script makes         *)
(* (0.05, 0.95, 0.6).                                                      *)
(***************************************************************************)
EXTENDS Integers, Sequences, FiniteSets, TLC

VARIABLES
    uploaded_file,   \* sidebar file_uploader: None or the name of a file
    model_choice,    \* sidebar selectbox
    n_estimators,    \* sidebar slider
    age, chol, thalach, cp,   \* the widgets of prediction_form
    trigger,         \* the kind of interaction that started the current run
    pc,              \* position of the script
    remote,          \* what pd.read_csv(url) met in the current run
    df,              \* the Dataset
    warning,         \* st.warning was emitted by the current run
    lignes, colonnes, cas_positifs,   \* the three metrics of tab1
    histogram,       \* the age histogram was drawn by the current run
    exception,       \* the current run ended on an uncaught exception
    prediction,      \* what tab2 displayed in the current run
    images_info,     \* tab3 fell back to the st.info message
    csv,             \* the bytes handed to the CSV download button
    previous, previous_cp     \* what the submission before displayed, and its cp
                              \* (recorded under ScorerSpec only)

vars == <<uploaded_file, model_choice, n_estimators, age, chol, thalach, cp,
          trigger, pc, remote, df, warning, lignes, colonnes, cas_positifs,
          histogram, exception, prediction, images_info, csv,
          previous, previous_cp>>

widgets == <<uploaded_file, model_choice, n_estimators, age, chol, thalach, cp>>

None == "None"

(***************************************************************************)
(* Cells of a table.  A CSV field that reads as an integer, any other      *)
(* text, and the NaN pandas puts where a field is missing.                 *)
(***************************************************************************)
I(n) == [t |-> "int", v |-> n]
Txt == [t |-> "str", v |-> 0]
NaN == [t |-> "nan", v |-> 0]

Max(a, b) == IF a >= b THEN a ELSE b

(***************************************************************************)
(* pd.DataFrame                                                            *)
(***************************************************************************)
\* pd.DataFrame(): no columns, no rows
EmptyDataFrame == [columns |-> <<>>, rows |-> <<>>]

\* pd.DataFrame({name: [values], ...}): one row per position of the lists
DataFrameFromDict(names, lists) ==
    [columns |-> names,
     rows |-> [i \in 1..Len(lists[1]) |->
                  [j \in 1..Len(names) |-> I(lists[j][i])]]]

\* name in df / name in df.columns
HasColumn(d, name) == \E j \in 1..Len(d.columns) : d.columns[j] = name

ColumnIndex(d, name) == CHOOSE j \in 1..Len(d.columns) : d.columns[j] = name

\* df[name] as the list of its cells
Column(d, name) ==
    [i \in 1..Len(d.rows) |-> d.rows[i][ColumnIndex(d, name)]]

\* The literal dataset of the except branch
FallbackDataFrame ==
    DataFrameFromDict(<<"age", "chol", "thalach", "target">>,
                      << <<45, 55, 65>>,
                         <<210, 260, 320>>,
                         <<150, 140, 120>>,
                         <<0, 1, 1>> >>)

\* The names assigned to df.columns after the fetch
HeartColumns ==
    <<"age", "sex", "cp", "trestbps", "chol", "fbs", "restecg",
      "thalach", "exang", "oldpeak", "slope", "ca", "thal", "target">>

(***************************************************************************)
(* The files the uploader or the URL can deliver.  A file is given by its  *)
(* tokens: whether its bytes decode at all, its header line and its data   *)
(* lines (an empty header is a file of no lines).  Header names are        *)
(* distinct and non-blank in every sample.                                 *)
(***************************************************************************)
Row14(last) == <<I(63), I(1), I(3), I(145), I(233), I(1), I(0),
                 I(150), I(0), I(2), I(0), I(0), I(1), last>>

FileContent(f) ==
    CASE f = "heart.csv" ->        \* 14 columns under the expected names
           [decodable |-> TRUE, header |-> HeartColumns,
            rows |-> <<Row14(I(1)), Row14(I(0))>>]
      [] f = "heart_num.csv" ->    \* 14 columns, the last one named num
           [decodable |-> TRUE,
            header |-> <<"age", "sex", "cp", "trestbps", "chol", "fbs",
                         "restecg", "thalach", "exang", "oldpeak", "slope",
                         "ca", "thal", "num">>,
            rows |-> <<Row14(I(1))>>]
      [] f = "heart_13.csv" ->     \* 13 columns: no target
           [decodable |-> TRUE,
            header |-> SubSeq(HeartColumns, 1, 13),
            rows |-> <<SubSeq(Row14(I(1)), 1, 13)>>]
      [] f = "heart_text.csv" ->   \* 14 columns, text in the last one
           [decodable |-> TRUE, header |-> HeartColumns,
            rows |-> <<Row14(I(1)), Row14(Txt)>>]
      [] f = "patients.csv" ->     \* age, chol, thalach, target
           [decodable |-> TRUE,
            header |-> <<"age", "chol", "thalach", "target">>,
            rows |-> << <<I(50), I(240), I(160), I(1)>>,
                        <<I(61), I(300)>>,
                        <<I(39), I(180), I(170), I(0)>> >>]
      [] f = "no_target.csv" ->    \* a parseable file without target
           [decodable |-> TRUE,
            header |-> <<"age", "chol", "thalach">>,
            rows |-> << <<I(50), I(240), I(160)>>,
                        <<I(61), I(300), I(120)>> >>]
      [] f = "no_age.csv" ->       \* target without age
           [decodable |-> TRUE,
            header |-> <<"chol", "target">>,
            rows |-> << <<I(240), I(1)>>, <<I(300), I(1)>> >>]
      [] f = "indexed.csv" ->      \* data lines one field longer than the header
           [decodable |-> TRUE,
            header |-> <<"age", "target">>,
            rows |-> << <<I(7), I(50), I(1)>>, <<I(8), I(61), I(0)>> >>]
      [] f = "ragged.csv" ->       \* a later line with too many fields
           [decodable |-> TRUE,
            header |-> <<"age", "target">>,
            rows |-> << <<I(50), I(1)>>, <<I(61), I(0), I(9)>> >>]
      [] f = "empty.csv" ->        \* no lines at all
           [decodable |-> TRUE, header |-> <<>>, rows |-> <<>>]
      [] f = "binary.csv" ->       \* bytes that do not decode
           [decodable |-> FALSE, header |-> <<>>, rows |-> <<>>]

Files == {"heart.csv", "heart_num.csv", "heart_13.csv", "heart_text.csv",
          "patients.csv", "no_target.csv", "no_age.csv", "indexed.csv",
          "ragged.csv", "empty.csv", "binary.csv"}

Unreachable == "unreachable"
NotFetched == "not fetched"

(***************************************************************************)
(* pd.read_csv with its defaults, on a tokenised file.                     *)
(***************************************************************************)
\* The number of fields every data line is brought to: the header's, or the
\* first data line's when that one is longer.
TableWidth(f) ==
    IF f.rows = <<>> THEN Len(f.header)
    ELSE Max(Len(f.header), Len(f.rows[1]))

\* read_csv raises: undecodable bytes, no columns to parse, or a data line
\* after the first with more fields than expected.
ReadCsvRaises(f) ==
    \/ ~f.decodable
    \/ f.header = <<>>
    \/ \E i \in 2..Len(f.rows) : Len(f.rows[i]) > TableWidth(f)

\* The leading fields of each data line that become the index when the data
\* lines are longer than the header.
LeadingCols(f) == TableWidth(f) - Len(f.header)

\* The cell of data line i under header column j: missing fields are NaN.
RawCell(f, i, j) ==
    LET k == j + LeadingCols(f)
    IN  IF k <= Len(f.rows[i]) THEN f.rows[i][k] ELSE NaN

\* A column holding any text is an object column: its numbers stay text.
ObjectColumn(f, j) == \E i \in 1..Len(f.rows) : RawCell(f, i, j).t = "str"

ReadCsv(f) ==
    [columns |-> f.header,
     rows |-> [i \in 1..Len(f.rows) |->
                  [j \in 1..Len(f.header) |->
                      IF ObjectColumn(f, j) /\ RawCell(f, i, j).t = "int"
                      THEN Txt ELSE RawCell(f, i, j)]]]

\* df.columns = names raises unless the lengths agree
SetColumnsRaises(d, names) == Len(d.columns) # Len(names)

\* Mutant: the assignment of the 14 names is left out
SetColumnsKeepsHeader(d, names) == d

SetColumns(d, names) == [d EXCEPT !.columns = names]

(***************************************************************************)
(* The try block of tab1.                                                  *)
(***************************************************************************)
\* The statements of the try block raise
LoadRaises(up, rem) ==
    IF up # None
    THEN ReadCsvRaises(FileContent(up))
    ELSE \/ rem = Unreachable
         \/ ReadCsvRaises(FileContent(rem))
         \/ SetColumnsRaises(ReadCsv(FileContent(rem)), HeartColumns)

\* Mutant: the except branch leaves the empty pd.DataFrame() of line 54 when
\* an upload fails
LoadedDataFrameKeepsEmpty(up, rem) ==
    IF LoadRaises(up, rem)
    THEN (IF up # None THEN EmptyDataFrame ELSE FallbackDataFrame)
    ELSE IF up # None THEN ReadCsv(FileContent(up))
    ELSE SetColumns(ReadCsv(FileContent(rem)), HeartColumns)

\* df after the try/except
LoadedDataFrame(up, rem) ==
    IF LoadRaises(up, rem) THEN FallbackDataFrame
    ELSE IF up # None THEN ReadCsv(FileContent(up))
    ELSE SetColumns(ReadCsv(FileContent(rem)), HeartColumns)

\* Mutant: the warning is emitted for a failed fetch only
LoadWarnsFetchOnly(up, rem) == up = None /\ LoadRaises(up, rem)

\* st.warning is called exactly in the except branch
LoadWarns(up, rem) == LoadRaises(up, rem)

(***************************************************************************)
(* The metrics of tab1.                                                    *)
(***************************************************************************)
NA == [kind |-> "N/A", v |-> 0]
Shown(n) == [kind |-> "int", v |-> n]
NotShown == [kind |-> "none", v |-> 0]

RECURSIVE SumCells(_)
\* Series.sum() of a numeric column: NaN is skipped
SumCells(cells) ==
    IF cells = <<>> THEN 0
    ELSE (IF Head(cells).t = "int" THEN Head(cells).v ELSE 0)
         + SumCells(Tail(cells))

\* int(df["target"].sum()) raises when the column holds text
PositiveCasesRaises(d) ==
    /\ HasColumn(d, "target")
    /\ \E i \in 1..Len(d.rows) : Column(d, "target")[i].t = "str"

PositiveCases(d) ==
    IF HasColumn(d, "target") THEN Shown(SumCells(Column(d, "target")))
    ELSE NA

\* Mutant: the guard of the histogram tests the age column only
DrawsHistogramAgeOnly(d) == HasColumn(d, "age")

\* if "target" in df.columns and "age" in df.columns
DrawsHistogram(d) == HasColumn(d, "target") /\ HasColumn(d, "age")

(***************************************************************************)
(* The risk score of tab2, in units of 1/Unit.                             *)
(***************************************************************************)
Unit == 12000

\* The options of the selectbox, named by their first word
Models == {"XGBoost", "RandomForest", "Logistic"}

\* Mutant: the digits of the Logistic score are swapped (0.48)
scores_modeles_swapped(m) ==
    CASE m = "XGBoost" -> 10680
      [] m = "RandomForest" -> 10440
      [] m = "Logistic" -> 5760

\* scores_modeles: 0.89, 0.87, 0.84
scores_modeles(m) ==
    CASE m = "XGBoost" -> 10680
      [] m = "RandomForest" -> 10440
      [] m = "Logistic" -> 10080

\* Mutant: the thalach term is added instead of subtracted
RisqueThalachAdded(a, c, t) ==
    4800 + (a - 50) * (Unit \div 200) + (c - 250) * (Unit \div 1500)
         + (t - 150) * (Unit \div 400)

\* 0.4 + (age - 50)/200 + (chol - 250)/1500 - (thalach - 150)/400
Risque(a, c, t) ==
    4800 + (a - 50) * (Unit \div 200) + (c - 250) * (Unit \div 1500)
         - (t - 150) * (Unit \div 400)

Min(a, b) == IF a <= b THEN a ELSE b

\* Mutant: the chest-pain type enters the score, 0.01 per type
RawProbaWithCp(a, c, t, k, m) ==
    scores_modeles(m) + (Risque(a, c, t) - 4800) \div 2 + (k - 1) * (Unit \div 100)

\* base_score + (risque - 0.4) / 2, before the clamp
RawProba(a, c, t, k, m) == scores_modeles(m) + (Risque(a, c, t) - 4800) \div 2

\* Mutant: the upper clamp is left out
ProbaNoUpperClamp(a, c, t, k, m) == Max(600, RawProba(a, c, t, k, m))

\* min(0.95, max(0.05, ...))
Proba(a, c, t, k, m) == Min(11400, Max(600, RawProba(a, c, t, k, m)))

\* "MALADIE" if proba >= 0.6 else "SAIN" (the labels without their emoji)
Label(p) == IF p >= 7200 THEN "MALADIE" ELSE "SAIN"

NoPrediction == [shown |-> FALSE, proba |-> 0, label |-> ""]

Predict(a, c, t, k, m) ==
    [shown |-> TRUE, proba |-> Proba(a, c, t, k, m),
     label |-> Label(Proba(a, c, t, k, m))]

(***************************************************************************)
(* Widget domains.                                                         *)
(***************************************************************************)
AgeMin == 20
AgeMax == 80
AgeDefault == 50
CholMin == 100
CholMax == 600
CholDefault == 250
ThalachMin == 70
ThalachMax == 220
ThalachDefault == 150
CpValues == {1, 2, 3, 4}
NEstimatorsDefault == 100

\* The positions the whole-application specification tries: the age slider
\* at its ends and default with the chol and thalach sliders left alone,
\* the first and the last chest-pain type, and two positions of the
\* n_estimators slider.  The risk score is tried on wider sets under
\* ScorerSpec.
FormAges == {AgeMin, AgeDefault, AgeMax}
FormChols == {CholDefault}
FormThalachs == {ThalachDefault}
FormCps == {1, 4}
NEstimatorsValues == {NEstimatorsDefault, 200}

(***************************************************************************)
(* The script.                                                             *)
(***************************************************************************)
Init ==
    /\ uploaded_file = None
    /\ model_choice = "XGBoost"
    /\ n_estimators = NEstimatorsDefault
    /\ age = AgeDefault
    /\ chol = CholDefault
    /\ thalach = ThalachDefault
    /\ cp = 1
    /\ trigger = "start"
    /\ pc = "tab1"
    /\ remote = NotFetched
    /\ df = EmptyDataFrame
    /\ warning = FALSE
    /\ lignes = NotShown
    /\ colonnes = NotShown
    /\ cas_positifs = NotShown
    /\ histogram = FALSE
    /\ exception = FALSE
    /\ prediction = NoPrediction
    /\ images_info = FALSE
    /\ csv = <<>>
    /\ previous = NoPrediction
    /\ previous_cp = 0

\* Mutant: the loaded Dataset is cached, and a run that no upload started
\* skips the load
RerunCached(why) ==
    /\ pc = "idle"
    /\ trigger' = why
    /\ pc' = IF why = "upload" THEN "tab1" ELSE "tab2"
    /\ remote' = NotFetched
    /\ warning' = FALSE
    /\ lignes' = NotShown
    /\ colonnes' = NotShown
    /\ cas_positifs' = NotShown
    /\ histogram' = FALSE
    /\ exception' = FALSE
    /\ prediction' = NoPrediction
    /\ images_info' = FALSE
    /\ csv' = <<>>
    /\ UNCHANGED <<df, previous, previous_cp>>

\* A new run starts: the page of the previous run is cleared.  df keeps the
\* value of the previous run until tab1 assigns it again.
Rerun(why) ==
    /\ pc = "idle"
    /\ trigger' = why
    /\ pc' = "tab1"
    /\ remote' = NotFetched
    /\ warning' = FALSE
    /\ lignes' = NotShown
    /\ colonnes' = NotShown
    /\ cas_positifs' = NotShown
    /\ histogram' = FALSE
    /\ exception' = FALSE
    /\ prediction' = NoPrediction
    /\ images_info' = FALSE
    /\ csv' = <<>>
    /\ UNCHANGED <<df, previous, previous_cp>>

Upload ==
    \E f \in Files :
        /\ f # uploaded_file
        /\ uploaded_file' = f
        /\ Rerun("upload")
        /\ UNCHANGED <<model_choice, n_estimators, age, chol, thalach, cp>>

RemoveUpload ==
    /\ uploaded_file # None
    /\ uploaded_file' = None
    /\ Rerun("upload")
    /\ UNCHANGED <<model_choice, n_estimators, age, chol, thalach, cp>>

SelectModel ==
    \E m \in Models :
        /\ m # model_choice
        /\ model_choice' = m
        /\ Rerun("sidebar")
        /\ UNCHANGED <<uploaded_file, n_estimators, age, chol, thalach, cp>>

SlideEstimators ==
    \E n \in NEstimatorsValues :
        /\ n # n_estimators
        /\ n_estimators' = n
        /\ Rerun("sidebar")
        /\ UNCHANGED <<uploaded_file, model_choice, age, chol, thalach, cp>>

\* The form hands its widgets to the script only when it is submitted.
SubmitForm ==
    \E a \in FormAges, c \in FormChols, t \in FormThalachs, k \in FormCps :
        /\ age' = a
        /\ chol' = c
        /\ thalach' = t
        /\ cp' = k
        /\ ~exception
        /\ Rerun("submit")
        /\ UNCHANGED <<uploaded_file, model_choice, n_estimators>>

ClickDownloadCsv ==
    /\ csv # <<>>
    /\ Rerun("download")
    /\ UNCHANGED widgets

ClickDownloadJson ==
    /\ ~exception
    /\ Rerun("download")
    /\ UNCHANGED widgets

\* Lines 51-91.  The fetch meets whatever the URL serves in this run.
Tab1 ==
    /\ pc = "tab1"
    /\ \E rem \in IF uploaded_file = None THEN Files \cup {Unreachable}
                  ELSE {NotFetched} :
        LET d == LoadedDataFrame(uploaded_file, rem)
        IN  /\ remote' = rem
            /\ df' = d
            /\ warning' = LoadWarns(uploaded_file, rem)
            /\ lignes' = Shown(Len(d.rows))
            /\ colonnes' = Shown(Len(d.columns))
            /\ IF PositiveCasesRaises(d)
               THEN /\ exception' = TRUE
                    /\ pc' = "idle"
                    /\ UNCHANGED <<cas_positifs, histogram>>
               ELSE /\ cas_positifs' = PositiveCases(d)
                    /\ histogram' = DrawsHistogram(d)
                    /\ pc' = "tab2"
                    /\ UNCHANGED exception
    /\ UNCHANGED <<widgets, trigger, prediction, images_info, csv,
                   previous, previous_cp>>

\* Lines 96-148.  The delta of the metric is proba again, as a percentage.
Tab2 ==
    /\ pc = "tab2"
    /\ prediction' = IF trigger = "submit"
                     THEN Predict(age, chol, thalach, cp, model_choice)
                     ELSE NoPrediction
    /\ pc' = "tab3"
    /\ UNCHANGED <<widgets, trigger, remote, df, warning, lignes, colonnes,
                   cas_positifs, histogram, exception, images_info, csv,
                   previous, previous_cp>>

(***************************************************************************)
(* Text is a sequence of Unicode code points, bytes a sequence of 0..255.  *)
(* A number of the results table is held in tenths (89.4 is 894).          *)
(***************************************************************************)
Str(s) == [t |-> "str", s |-> s, v |-> 0]
Float(tenths) == [t |-> "float", s |-> <<>>, v |-> tenths]

\* "Modèle"
TxtModele == <<77, 111, 100, 232, 108, 101>>
\* "Accuracy (%)"
TxtAccuracy == <<65, 99, 99, 117, 114, 97, 99, 121, 32, 40, 37, 41>>
\* "F1-Score (%)"
TxtF1Score == <<70, 49, 45, 83, 99, 111, 114, 101, 32, 40, 37, 41>>
\* "ROC-AUC (%)"
TxtRocAuc == <<82, 79, 67, 45, 65, 85, 67, 32, 40, 37, 41>>
\* "XGBoost"
TxtXGBoost == <<88, 71, 66, 111, 111, 115, 116>>
\* "RandomForest"
TxtRandomForest == <<82, 97, 110, 100, 111, 109, 70, 111, 114, 101, 115, 116>>
\* "Logistic"
TxtLogistic == <<76, 111, 103, 105, 115, 116, 105, 99>>

\* The table of tab3
results_df ==
    LET modele == <<TxtXGBoost, TxtRandomForest, TxtLogistic>>
        accuracy == <<894, 879, 848>>
        f1 == <<894, 878, 846>>
        roc == <<956, 945, 912>>
    IN  [columns |-> <<TxtModele, TxtAccuracy, TxtF1Score, TxtRocAuc>>,
         rows |-> [i \in 1..3 |->
                      <<Str(modele[i]), Float(accuracy[i]),
                        Float(f1[i]), Float(roc[i])>>]]

Comma == 44
Quote == 34
LineFeed == 10
CarriageReturn == 13
FullStop == 46
DigitZero == 48

RECURSIVE Digits(_)
\* The decimal digits of a natural number
Digits(n) ==
    IF n < 10 THEN <<DigitZero + n>>
    ELSE Digits(n \div 10) \o <<DigitZero + (n % 10)>>

\* repr of a float that has one decimal
FormatFloat(tenths) ==
    Digits(tenths \div 10) \o <<FullStop>> \o <<DigitZero + (tenths % 10)>>

\* csv.QUOTE_MINIMAL: a field is quoted when it holds a delimiter, a quote
\* or a line break
NeedsQuote(s) ==
    \E i \in 1..Len(s) : s[i] \in {Comma, Quote, LineFeed, CarriageReturn}

RECURSIVE DoubleQuotes(_)
DoubleQuotes(s) ==
    IF s = <<>> THEN <<>>
    ELSE (IF Head(s) = Quote THEN <<Quote, Quote>> ELSE <<Head(s)>>)
         \o DoubleQuotes(Tail(s))

CsvField(cell) ==
    IF cell.t = "float" THEN FormatFloat(cell.v)
    ELSE IF NeedsQuote(cell.s)
         THEN <<Quote>> \o DoubleQuotes(cell.s) \o <<Quote>>
         ELSE cell.s

RECURSIVE CsvLine(_)
\* The fields of one record, separated by commas, and the line terminator
CsvLine(cells) ==
    IF Len(cells) = 1 THEN CsvField(cells[1]) \o <<LineFeed>>
    ELSE CsvField(Head(cells)) \o <<Comma>> \o CsvLine(Tail(cells))

RECURSIVE CsvLines(_)
CsvLines(rows) ==
    IF rows = <<>> THEN <<>>
    ELSE CsvLine(Head(rows)) \o CsvLines(Tail(rows))

\* Mutant: to_csv() without index=False writes the row index as a first,
\* unnamed column
to_csv_with_index(d) ==
    CsvLine(<<Str(<<>>)>> \o [j \in 1..Len(d.columns) |-> Str(d.columns[j])])
        \o CsvLines([i \in 1..Len(d.rows) |->
                        <<Str(Digits(i - 1))>> \o d.rows[i]])

\* DataFrame.to_csv(index=False): the header line, then one line per row
to_csv(d) ==
    CsvLine([j \in 1..Len(d.columns) |-> Str(d.columns[j])])
        \o CsvLines(d.rows)

\* The UTF-8 bytes of one code point
Utf8Bytes(c) ==
    IF c < 128 THEN <<c>>
    ELSE IF c < 2048 THEN <<192 + (c \div 64), 128 + (c % 64)>>
    ELSE IF c < 65536
         THEN <<224 + (c \div 4096), 128 + ((c \div 64) % 64), 128 + (c % 64)>>
         ELSE <<240 + (c \div 262144), 128 + ((c \div 4096) % 64),
                128 + ((c \div 64) % 64), 128 + (c % 64)>>

RECURSIVE EncodeSpan(_, _, _)
\* The bytes of s[lo..hi], the span halved at each step
EncodeSpan(s, lo, hi) ==
    IF lo > hi THEN <<>>
    ELSE IF lo = hi THEN Utf8Bytes(s[lo])
    ELSE LET mid == (lo + hi) \div 2
         IN  EncodeSpan(s, lo, mid) \o EncodeSpan(s, mid + 1, hi)

\* str.encode("utf-8")
encode_utf8(s) == EncodeSpan(s, 1, Len(s))

\* json_data of tab4
json_data ==
    [meilleur_modele |-> TxtXGBoost,
     f1_score_max |-> 894,
     features_importantes |-> <<"thalach", "oldpeak", "cp">>]

\* Lines 153-180.  The three images are there or st.image raises.
Tab3 ==
    /\ pc = "tab3"
    /\ \E images_found \in BOOLEAN : images_info' = ~images_found
    /\ pc' = "tab4"
    /\ UNCHANGED <<widgets, trigger, remote, df, warning, lignes, colonnes,
                   cas_positifs, histogram, exception, prediction, csv,
                   previous, previous_cp>>

\* Lines 185-203
Tab4 ==
    /\ pc = "tab4"
    /\ csv' = encode_utf8(to_csv(results_df))
    /\ pc' = "idle"
    /\ UNCHANGED <<widgets, trigger, remote, df, warning, lignes, colonnes,
                   cas_positifs, histogram, exception, prediction,
                   images_info, previous, previous_cp>>

Next ==
    \/ Upload
    \/ RemoveUpload
    \/ SelectModel
    \/ SlideEstimators
    \/ SubmitForm
    \/ ClickDownloadCsv
    \/ ClickDownloadJson
    \/ Tab1
    \/ Tab2
    \/ Tab3
    \/ Tab4

Spec == Init /\ [][Next]_vars

(***************************************************************************)
(* The risk score on its own: the form is submitted with slider positions  *)
(* drawn from windows around the ends and the default of each slider, and  *)
(* submitted again with another chest-pain type.                           *)
(***************************************************************************)
ScoreWindow == 2

Near(x, anchor) == x - anchor <= ScoreWindow /\ anchor - x <= ScoreWindow

ScoreAges ==
    {a \in AgeMin..AgeMax :
        Near(a, AgeMin) \/ Near(a, AgeDefault) \/ Near(a, AgeMax)}
ScoreChols ==
    {c \in CholMin..CholMax :
        Near(c, CholMin) \/ Near(c, CholDefault) \/ Near(c, CholMax)}
ScoreThalachs ==
    {t \in ThalachMin..ThalachMax :
        Near(t, ThalachMin) \/ Near(t, ThalachDefault) \/ Near(t, ThalachMax)}

\* The script has reached tab2 in a run started by the submit button.
ScorerInit ==
    /\ uploaded_file = None
    /\ model_choice \in Models
    /\ n_estimators = NEstimatorsDefault
    /\ age \in ScoreAges
    /\ chol \in ScoreChols
    /\ thalach \in ScoreThalachs
    /\ cp \in CpValues
    /\ trigger = "submit"
    /\ pc = "tab2"
    /\ remote = Unreachable
    /\ df = FallbackDataFrame
    /\ warning = TRUE
    /\ lignes = Shown(3)
    /\ colonnes = Shown(4)
    /\ cas_positifs = Shown(2)
    /\ histogram = TRUE
    /\ exception = FALSE
    /\ prediction = NoPrediction
    /\ images_info = FALSE
    /\ csv = <<>>
    /\ previous = NoPrediction
    /\ previous_cp = 0

\* The form is submitted again with only cp changed: the run this starts
\* reaches tab2 with every other widget as it was, and what the run before
\* displayed is kept in previous.
Resubmit ==
    /\ pc = "tab3"
    /\ prediction.shown
    /\ \E k \in CpValues \ {cp} :
        /\ previous' = prediction
        /\ previous_cp' = cp
        /\ cp' = k
        /\ prediction' = Predict(age, chol, thalach, k, model_choice)
    /\ UNCHANGED <<uploaded_file, model_choice, n_estimators, age, chol,
                   thalach, trigger, pc, remote, df, warning, lignes,
                   colonnes, cas_positifs, histogram, exception,
                   images_info, csv>>

ScorerNext ==
    \/ Tab2
    \/ Resubmit

ScorerSpec == ScorerInit /\ [][ScorerNext]_vars

(***************************************************************************)
(* Properties of the risk score (ScorerSpec).                              *)
(***************************************************************************)

\* C1: whatever the sliders, cp and the model choice, the probability
\* computed on submit lies in [0.05, 0.95], both ends included.
C1_ProbaInRange ==
    prediction.shown =>
        /\ prediction.proba >= (5 * Unit) \div 100
        /\ prediction.proba <= (95 * Unit) \div 100

\* A submission on which the upper clamp acts
C1_Witness ==
    /\ prediction.shown
    /\ RawProba(age, chol, thalach, cp, model_choice) > (95 * Unit) \div 100
    /\ prediction.proba = (95 * Unit) \div 100

\* The formula of the specification, written out in 1/Unit
ExpectedBase(m) ==
    IF m = "XGBoost" THEN (89 * Unit) \div 100
    ELSE IF m = "RandomForest" THEN (87 * Unit) \div 100
    ELSE (84 * Unit) \div 100

ExpectedRisk(a, c, t) ==
    (4 * Unit) \div 10 + 60 * (a - 50) + 8 * (c - 250) - 30 * (t - 150)

ExpectedProba(a, c, t, m) ==
    LET x == ExpectedBase(m) + (ExpectedRisk(a, c, t) - (4 * Unit) \div 10) \div 2
    IN  IF x < 600 THEN 600 ELSE IF x > 11400 THEN 11400 ELSE x

\* C2: the probability is clamp(base + (risk - 0.4)/2, 0.05, 0.95) with the
\* documented risk and base, the label is the disease label exactly when the
\* probability is at least 0.6; (50, 250, 150, any cp, XGBoost) gives 0.89
\* and disease, (80, 600, 70, 4, RandomForest) gives 0.95 and disease.
C2_ScoreFormula ==
    prediction.shown =>
        /\ prediction.proba = ExpectedProba(age, chol, thalach, model_choice)
        /\ prediction.label = "MALADIE" <=> prediction.proba >= 7200
        /\ prediction.label = "SAIN" <=> prediction.proba < 7200
        /\ (age = 50 /\ chol = 250 /\ thalach = 150 /\ model_choice = "XGBoost")
              => (prediction.proba = 10680 /\ prediction.label = "MALADIE")
        /\ (age = 80 /\ chol = 600 /\ thalach = 70 /\ cp = 4
               /\ model_choice = "RandomForest")
              => (prediction.proba = 11400 /\ prediction.label = "MALADIE")

\* The clamped example has been submitted
C2_Witness ==
    /\ prediction.shown
    /\ age = 80 /\ chol = 600 /\ thalach = 70 /\ cp = 4
    /\ model_choice = "RandomForest"

\* C3: two submissions that differ only in cp show the same probability and
\* the same label.
C3_CpIndependent ==
    (previous.shown /\ prediction.shown) =>
        /\ prediction.proba = previous.proba
        /\ prediction.label = previous.label

\* The form has been submitted a second time with another cp
C3_Witness ==
    /\ previous.shown
    /\ prediction.shown
    /\ previous_cp # cp

\* C10: the probability before the clamp is never below 0.6275, so the lower
\* clamp never acts and the healthy label is never shown.
C10_NeverHealthy ==
    prediction.shown =>
        /\ RawProba(age, chol, thalach, cp, model_choice) >= (6275 * Unit) \div 10000
        /\ prediction.proba = Min(11400, RawProba(age, chol, thalach, cp, model_choice))
        /\ prediction.label # "SAIN"

\* The submission that reaches the minimum
C10_Witness ==
    /\ prediction.shown
    /\ age = 20 /\ chol = 100 /\ thalach = 220
    /\ model_choice = "Logistic"
    /\ prediction.proba = (6275 * Unit) \div 10000

(***************************************************************************)
(* Properties of data loading (Spec).                                      *)
(***************************************************************************)
\* The current run has executed the try/except of tab1
Loaded == pc # "tab1"

\* C4: when an upload is provided and parsing it raises, the Dataset is the
\* literal three-row fallback, column by column, and holds nothing else.
C4_UploadFallback ==
    (Loaded /\ uploaded_file # None
        /\ ReadCsvRaises(FileContent(uploaded_file))) =>
        /\ df.columns = <<"age", "chol", "thalach", "target">>
        /\ Len(df.rows) = 3
        /\ \A i \in 1..Len(df.rows) : Len(df.rows[i]) = 4
        /\ Column(df, "age") = <<I(45), I(55), I(65)>>
        /\ Column(df, "chol") = <<I(210), I(260), I(320)>>
        /\ Column(df, "thalach") = <<I(150), I(140), I(120)>>
        /\ Column(df, "target") = <<I(0), I(1), I(1)>>

\* A run has loaded an upload whose data lines cannot be tokenised
C4_Witness ==
    /\ pc = "idle"
    /\ uploaded_file = "ragged.csv"
    /\ lignes = Shown(3)

\* The source the current run read parsed into a table
SourceParses ==
    IF uploaded_file # None
    THEN ~ReadCsvRaises(FileContent(uploaded_file))
    ELSE remote \in Files /\ ~ReadCsvRaises(FileContent(remote))

SourceTable ==
    ReadCsv(FileContent(IF uploaded_file # None THEN uploaded_file ELSE remote))

\* A column is missing from the source: an upload without target, a fetched
\* file with fewer columns than the 14 expected
MissingColumn ==
    /\ SourceParses
    /\ IF uploaded_file # None
       THEN ~HasColumn(SourceTable, "target")
       ELSE Len(SourceTable.columns) < 14

\* An exception inside the try block: the fetch fails, read_csv raises, or
\* the 14 names do not fit the fetched table
LoadException ==
    \/ uploaded_file = None /\ remote = Unreachable
    \/ ~SourceParses
    \/ uploaded_file = None /\ SourceParses /\ Len(SourceTable.columns) # 14

\* C5 as stated: every failure on either path, a missing column included,
\* ends on the fallback with a warning, and the warning is emitted exactly
\* when the fallback is taken.
C5_Original ==
    Loaded =>
        /\ (LoadException \/ MissingColumn)
              => (df = FallbackDataFrame /\ warning)
        /\ warning <=> df = FallbackDataFrame

\* C5 amended: every exception raised inside the try block (fetch failure,
\* parse error, a fetched table that does not have 14 columns) ends on the
\* fallback with a warning; the warning is emitted exactly then; an upload
\* that parses is kept as it is even when a column is missing.
C5_ExceptionFallsBack ==
    Loaded =>
        /\ LoadException => (df = FallbackDataFrame /\ warning)
        /\ warning <=> LoadException
        /\ ~LoadException =>
              /\ df.rows = SourceTable.rows
              /\ uploaded_file # None => df = SourceTable

\* The fetched table had 13 columns and the run fell back
C5_Witness ==
    /\ Loaded
    /\ uploaded_file = None
    /\ remote = "heart_13.csv"
    /\ warning
    /\ df = FallbackDataFrame

\* A run started by a sidebar control, the submit button or an export button
LaterRun == trigger \in {"sidebar", "submit", "download"}

\* C6 as stated: after the first load no later interaction loads the data
\* again or changes the Dataset.
C6_Original ==
    [][(LaterRun /\ pc = "tab1") => (df' = df /\ remote' = NotFetched)]_vars

\* C6 amended: the Dataset is loaded once per run and every interaction starts
\* a new run, which loads it again; within a run nothing after the load
\* changes the Dataset, and the load alone decides its contents.
C6_LoadedOncePerRun ==
    [][/\ pc # "tab1" => df' = df
       /\ (pc = "idle" /\ pc' # "idle") => pc' = "tab1"
       /\ pc = "tab1" =>
             /\ pc' \in {"tab2", "idle"}
             /\ df' = LoadedDataFrame(uploaded_file, remote')
             /\ uploaded_file = None => remote' # NotFetched]_vars

\* A run started by a later interaction has fetched the data again
C6_Witness ==
    /\ LaterRun
    /\ pc = "tab2"
    /\ remote \in Files \cup {Unreachable}

\* C7: after loading with no upload the Dataset has a target column: the
\* fetch succeeded and the columns are the 14 fixed names in order, whatever
\* the header was, or the load failed (a column count other than 14
\* included) and the Dataset is the fallback.
C7_TargetAfterFetch ==
    (Loaded /\ uploaded_file = None) =>
        /\ HasColumn(df, "target")
        /\ \/ /\ SourceParses
              /\ Len(SourceTable.columns) = 14
              /\ df.columns =
                    <<"age", "sex", "cp", "trestbps", "chol", "fbs",
                      "restecg", "thalach", "exang", "oldpeak", "slope",
                      "ca", "thal", "target">>
              /\ df.rows = SourceTable.rows
           \/ /\ LoadException
              /\ df = FallbackDataFrame
        /\ (SourceParses /\ Len(SourceTable.columns) # 14)
              => df = FallbackDataFrame

\* The fetched header named its last column num, and was overwritten
C7_Witness ==
    /\ Loaded
    /\ uploaded_file = None
    /\ remote = "heart_num.csv"
    /\ ~HasColumn(SourceTable, "target")
    /\ df.columns = HeartColumns

\* C9: an upload that parses but has no target column is kept as the
\* Dataset; no fallback, no warning, the positive-cases metric shows N/A and
\* the histogram is skipped.
C9_UploadWithoutTarget ==
    (Loaded /\ uploaded_file # None /\ SourceParses
        /\ ~HasColumn(SourceTable, "target")) =>
        /\ df = SourceTable
        /\ df # FallbackDataFrame
        /\ ~warning
        /\ ~exception
        /\ cas_positifs = NA
        /\ ~histogram

\* Such an upload has been loaded and the run has ended
C9_Witness ==
    /\ pc = "idle"
    /\ uploaded_file = "no_target.csv"
    /\ colonnes = Shown(3)
    /\ cas_positifs = NA

(***************************************************************************)
(* Reading the export back: UTF-8 decoding, then a CSV reader (records end *)
(* at a line feed, fields at a comma, both outside quotes; a quoted field  *)
(* has its quotes removed and its doubled quotes halved; a column whose    *)
(* fields all read as numbers is numeric).                                 *)
(***************************************************************************)
\* The code point that starts at byte i; nothing at a continuation byte
DecodeAt(b, i) ==
    IF b[i] < 128 THEN <<b[i]>>
    ELSE IF b[i] < 192 THEN <<>>
    ELSE IF b[i] < 224 THEN <<(b[i] - 192) * 64 + (b[i + 1] - 128)>>
    ELSE IF b[i] < 240
         THEN <<(b[i] - 224) * 4096 + (b[i + 1] - 128) * 64 + (b[i + 2] - 128)>>
         ELSE <<(b[i] - 240) * 262144 + (b[i + 1] - 128) * 4096
                 + (b[i + 2] - 128) * 64 + (b[i + 3] - 128)>>

RECURSIVE DecodeSpan(_, _, _)
DecodeSpan(b, lo, hi) ==
    IF lo > hi THEN <<>>
    ELSE IF lo = hi THEN DecodeAt(b, lo)
    ELSE LET mid == (lo + hi) \div 2
         IN  DecodeSpan(b, lo, mid) \o DecodeSpan(b, mid + 1, hi)

decode_utf8(b) == DecodeSpan(b, 1, Len(b))

\* The separators of text that lie outside quotes: those with an even
\* number of quote characters before them
Breaks(text, sep) ==
    LET quotes == {j \in 1..Len(text) : text[j] = Quote}
    IN  {i \in 1..Len(text) :
            /\ text[i] = sep
            /\ Cardinality({j \in quotes : j < i}) % 2 = 0}

NthOf(S, k) == CHOOSE i \in S : Cardinality({j \in S : j < i}) = k - 1

\* The pieces of text between the separators that lie outside quotes
Pieces(text, sep) ==
    LET B == Breaks(text, sep)
        n == Cardinality(B)
    IN  [k \in 1..(n + 1) |->
            SubSeq(text,
                   IF k = 1 THEN 1 ELSE NthOf(B, k - 1) + 1,
                   IF k = n + 1 THEN Len(text) ELSE NthOf(B, k) - 1)]

RECURSIVE HalveQuotes(_)
HalveQuotes(s) ==
    IF s = <<>> THEN <<>>
    ELSE IF Len(s) >= 2 /\ s[1] = Quote /\ s[2] = Quote
         THEN <<Quote>> \o HalveQuotes(SubSeq(s, 3, Len(s)))
         ELSE <<Head(s)>> \o HalveQuotes(Tail(s))

Unquote(s) ==
    IF Len(s) >= 2 /\ s[1] = Quote /\ s[Len(s)] = Quote
    THEN HalveQuotes(SubSeq(s, 2, Len(s) - 1))
    ELSE s

\* The records of the text, each as its fields; blank lines are skipped
CsvRecords(text) ==
    LET lines == SelectSeq(Pieces(text, LineFeed), LAMBDA l : l # <<>>)
    IN  [i \in 1..Len(lines) |->
            LET raw == Pieces(lines[i], Comma)
            IN  [j \in 1..Len(raw) |-> Unquote(raw[j])]]

IsDigit(c) == c >= DigitZero /\ c <= DigitZero + 9

RECURSIVE NatValue(_)
NatValue(s) ==
    IF s = <<>> THEN 0
    ELSE NatValue(SubSeq(s, 1, Len(s) - 1)) * 10 + (s[Len(s)] - DigitZero)

\* Digits, or digits with one decimal
IsNumber(s) ==
    /\ s # <<>>
    /\ \/ \A i \in 1..Len(s) : IsDigit(s[i])
       \/ /\ Len(s) >= 3
          /\ s[Len(s) - 1] = FullStop
          /\ \A i \in 1..Len(s) : i # Len(s) - 1 => IsDigit(s[i])

\* The value of a number, in tenths
NumberValue(s) ==
    IF \A i \in 1..Len(s) : IsDigit(s[i]) THEN NatValue(s) * 10
    ELSE NatValue(SubSeq(s, 1, Len(s) - 2)) * 10 + (s[Len(s)] - DigitZero)

\* The table read from the text: the first record names the columns
ReadBack(text) ==
    LET recs == CsvRecords(text)
        field(i, j) == IF j <= Len(recs[i]) THEN recs[i][j] ELSE <<>>
        numeric(j) == \A i \in 2..Len(recs) : IsNumber(field(i, j))
    IN  [columns |-> recs[1],
         rows |-> [i \in 1..(Len(recs) - 1) |->
                      [j \in 1..Len(recs[1]) |->
                          IF numeric(j)
                          THEN Float(NumberValue(field(i + 1, j)))
                          ELSE Str(field(i + 1, j))]]]

\* "Modèle,Accuracy (%),F1-Score (%),ROC-AUC (%)"
ExportHeaderLine ==
    TxtModele \o <<Comma>> \o TxtAccuracy \o <<Comma>> \o TxtF1Score
        \o <<Comma>> \o TxtRocAuc

\* The first line of a text
FirstLine(text) == Pieces(text, LineFeed)[1]

\* C8: reading the exported CSV back gives the documented header and the
\* three rows of the results table, same order, same values, whatever
\* Dataset was loaded and whatever prediction was submitted.
C8_ExportRoundTrip ==
    csv # <<>> =>
        LET text == decode_utf8(csv)
            back == ReadBack(text)
        IN  /\ FirstLine(text) = ExportHeaderLine
            /\ back.columns = results_df.columns
            /\ Len(back.rows) = 3
            /\ back.rows = results_df.rows

\* The export was made in a run that loaded an upload and showed a prediction
C8_Witness ==
    /\ csv # <<>>
    /\ uploaded_file # None
    /\ prediction.shown

====
